---- MODULE Spec2Model ----
(***************************************************************************)
(* Model of kolibri/core/apps.py: the startup hooks of KolibriCoreConfig.   *)
(*   ready()                            composes the three procedures       *)
(*   activate_pragmas_on_start()        START_PRAGMAS on the default db     *)
(*   check_redis_settings()             reconciles the Redis configuration  *)
(*   activate_pragmas_per_connection()  connection_created signal handler   *)
(* Each procedure is stepped statement by statement; `trace' is the log of  *)
(* the calls made and the warnings emitted by the procedure now running (or *)
(* the last one that ran); it is emptied when the next procedure starts.    *)
(***************************************************************************)
EXTENDS Integers, Sequences, FiniteSets, TLC

\* ---------------------------------------------------------------- bounds
\* maxmemory values range over 0..MaxMem, used memory over 0..MaxMem+1
MaxMem == 2
\* number of process startups (runs of ready()) explored
MaxRuns == 2

\* ------------------------------------------------------------- value sets
NOTIFICATIONS == "notifications_db"
SQLITE == "sqlite"
REDIS == "redis"
NOEVICTION == "noeviction"
START_PRAGMAS == "START_PRAGMAS"
CONNECTION_PRAGMAS == "CONNECTION_PRAGMAS"

Vendors == {SQLITE, "postgresql"}
Aliases == {"default", NOTIFICATIONS}
Backends == {REDIS, "memory"}
\* policies the live server may report
LivePolicies == {NOEVICTION, "allkeys-lru", "volatile-lru"}
\* OPTIONS["Cache"]["CACHE_REDIS_MAXMEMORY_POLICY"]: "" means not configured
ConfigPolicies == {"", NOEVICTION, "allkeys-lru"}
MemValues == 0..MaxMem
UsedValues == 0..(MaxMem + 1)
\* what a call on the redis client can do
CallResults == {"ok", "ConnectionError", "Exception"}
\* what the PRAGMA quick_check probe can do: the row "ok", another row, or raise
ProbeResults == {"ok", "corrupt", "DatabaseError"}
DbResults == {"ok", "DatabaseError"}

VARIABLES
    backend,                  \* OPTIONS["Cache"]["CACHE_BACKEND"]
    config_maxmemory,         \* OPTIONS["Cache"]["CACHE_REDIS_MAXMEMORY"]
    config_maxmemory_policy,  \* OPTIONS["Cache"]["CACHE_REDIS_MAXMEMORY_POLICY"]
    vendor,                   \* django.db.connection.vendor (default connection)
    redis_policy,             \* the server's maxmemory-policy
    redis_maxmemory,          \* the server's maxmemory
    pc,                       \* position in the code
    handler,                  \* procedure running or last run: none/start/redis/conn
    trace,                    \* calls and warnings of that procedure, in order
    changed,                  \* helper.changed
    maxmemory_policy,         \* local of check_redis_settings ("" before the read)
    maxmemory,                \* local of check_redis_settings (-1 before the read)
    used_memory,              \* local of check_redis_settings (-1 before the read)
    exc,                      \* exception caught by the try block
    raised,                   \* exception that left the procedure
    connection,               \* argument of activate_pragmas_per_connection
    broken_db,                \* local of activate_pragmas_per_connection
    registered,               \* connection_created.connect(...) done
    runs,                     \* startups so far
    redis_status,             \* this startup's check: how it ended, and helper.changed then
    live0,                    \* server configuration when the check started
    prev                      \* server configuration after the previous check

vars == <<backend, config_maxmemory, config_maxmemory_policy, vendor,
          redis_policy, redis_maxmemory, pc, handler, trace, changed,
          maxmemory_policy, maxmemory, used_memory, exc, raised, connection,
          broken_db, registered, runs, redis_status, live0, prev>>

config == <<backend, config_maxmemory, config_maxmemory_policy, vendor>>
server == <<redis_policy, redis_maxmemory>>
locals == <<changed, maxmemory_policy, maxmemory, used_memory>>
hook == <<connection, broken_db>>

\* ------------------------------------------------------------------ events
Call(name, s, n) == [kind |-> "call", name |-> name, str |-> s, num |-> n, num2 |-> 0]
Warn(name, s, n, m) == [kind |-> "warn", name |-> name, str |-> s, num |-> n, num2 |-> m]

NoExc == [type |-> "none", msg |-> ""]
\* the exception a failing client call raises; its message names the call
ClientError(kind, call) == [type |-> kind, msg |-> call]
NotRaised == [type |-> "none", msg |-> <<>>, cause |-> NoExc]
NoConnection == [vendor |-> "", alias |-> ""]
NotRun == [state |-> "notrun", changed |-> FALSE]
NoSnapshot == [valid |-> FALSE, clean |-> FALSE, changed |-> FALSE, policy |-> "",
               maxmemory |-> 0]

\* -------------------------------------------------- RedisSettingsHelper
\* kolibri.core.utils.cache.RedisSettingsHelper: changed is false on
\* construction and is marked by each corrective write.
HelperChangedInit == FALSE
HelperChangedOnSet == TRUE

\* ------------------------------------------------------ decisions of the code
\* variant: the backend guard is missing
BackendCheckedAlways(b) == TRUE

\* line 122: the check runs only for the redis backend
BackendChecked(b) == b = REDIS

\* variant: the test for an unconfigured ("") policy is missing
PolicyNeedsWriteNoEmptyTest(cfg, live) == live # cfg

\* lines 134-137
PolicyNeedsWrite(cfg, live) == cfg # "" /\ live # cfg

\* line 139
PolicyIsDefault(live) == live = NOEVICTION

\* variant: the comparison with the live value is missing
MemoryNeedsWriteNoCompare(cfg, live) == cfg > 0

\* line 147
MemoryNeedsWrite(cfg, live) == cfg > 0 /\ live # cfg

\* variant: the comparison is reversed
UsedExceedsReversed(cfg, used) == cfg > used

\* line 149
UsedExceeds(cfg, used) == cfg < used

\* line 158
MemoryUnlimited(live) == live = 0

\* variant: the "not helper.changed" conjunct is missing
FinalWarningNeededIgnoringChanged(ch, mem, pol) == mem = 0 \/ pol = NOEVICTION

\* lines 162-164
FinalWarningNeeded(ch, mem, pol) == ~ch /\ (mem = 0 \/ pol = NOEVICTION)

\* variant: a single clause that re-raises everything
ExceptClauseAllConnection(e) == "except_connection"

\* lines 170 and 177: which except clause takes the exception
ExceptClause(e) == IF e.type = "ConnectionError" THEN "except_connection"
                   ELSE "except_other"

\* variant: plain raise, the cause is not chained
RedisConnectionErrorNoCause(e) ==
    [type |-> "RedisConnectionError",
     msg |-> <<"Unable to connect to Redis: ", e.msg>>, cause |-> NoExc]

\* lines 173-175: raise_from(RedisConnectionError("Unable to connect to Redis: {}".format(str(e))), e)
RedisConnectionError(e) ==
    [type |-> "RedisConnectionError",
     msg |-> <<"Unable to connect to Redis: ", e.msg>>, cause |-> e]

\* variant: the memory limit is reconciled first
FirstReconciledMemory == "get_maxmemory"

\* lines 131-133: the first step after the helper is built ("set policy first")
FirstReconciled == "get_policy"

\* line 68
ConnIsSqlite(v) == v = SQLITE

\* variant: the vendor test is missing
DefaultIsSqliteAlways(v) == TRUE

\* line 103
DefaultIsSqlite(v) == v = SQLITE

\* line 69
IsNotifications(a) == a = NOTIFICATIONS

\* variant: the except DatabaseError branch leaves broken_db false
BrokenDbIgnoringError(result) == IF result = "DatabaseError" THEN FALSE ELSE result # "ok"

\* lines 73-76: broken_db from the probe's outcome
BrokenDb(result) == IF result = "DatabaseError" THEN TRUE ELSE result # "ok"

\* ------------------------------------------------------------------- Init
Init ==
    /\ backend \in Backends
    /\ config_maxmemory \in MemValues
    /\ config_maxmemory_policy \in ConfigPolicies
    /\ vendor \in Vendors
    /\ redis_policy \in LivePolicies
    /\ redis_maxmemory \in MemValues
    /\ pc = "boot"
    /\ handler = "none"
    /\ trace = <<>>
    /\ changed = FALSE
    /\ maxmemory_policy = ""
    /\ maxmemory = -1
    /\ used_memory = -1
    /\ exc = NoExc
    /\ raised = NotRaised
    /\ connection = NoConnection
    /\ broken_db = FALSE
    /\ registered = FALSE
    /\ runs = 1
    /\ redis_status = NotRun
    /\ live0 = [policy |-> "", maxmemory |-> 0]
    /\ prev = NoSnapshot

\* ------------------------------------------------------------------ ready
\* ready(): registers the per-connection hook, then activate_pragmas_on_start
Ready ==
    /\ pc = "boot"
    /\ registered' = TRUE
    /\ handler' = "start"
    /\ trace' = <<>>
    /\ pc' = "start_vendor"
    /\ UNCHANGED <<config, server, locals, exc, raised, hook, runs,
                   redis_status, live0, prev>>

\* -------------------------------------------- activate_pragmas_on_start
StartCheckVendor ==
    /\ pc = "start_vendor"
    /\ IF DefaultIsSqlite(vendor)
       THEN /\ trace' = Append(trace, Call("cursor", "", 0))
            /\ pc' = "start_execute"
       ELSE /\ trace' = trace
            /\ pc' = "redis_backend"
    /\ UNCHANGED <<config, server, handler, locals, exc, raised, hook,
                   registered, runs, redis_status, live0, prev>>

StartExecute ==
    /\ pc = "start_execute"
    /\ \E r \in DbResults :
        /\ trace' = Append(trace, Call("execute", START_PRAGMAS, 0))
        /\ IF r = "ok"
           THEN /\ pc' = "start_close"
                /\ raised' = raised
           ELSE /\ pc' = "aborted"
                /\ raised' = [type |-> "DatabaseError", msg |-> <<"execute">>, cause |-> NoExc]
    /\ UNCHANGED <<config, server, handler, locals, exc, hook, registered,
                   runs, redis_status, live0, prev>>

StartClose ==
    /\ pc = "start_close"
    /\ trace' = Append(trace, Call("close", "", 0))
    /\ pc' = "redis_backend"
    /\ UNCHANGED <<config, server, handler, locals, exc, raised, hook,
                   registered, runs, redis_status, live0, prev>>

\* ---------------------------------------------------- check_redis_settings
\* lines 122-125: early return unless the backend is redis
RedisCheckBackend ==
    /\ pc = "redis_backend"
    /\ handler' = "redis"
    /\ trace' = <<>>
    /\ live0' = [policy |-> redis_policy, maxmemory |-> redis_maxmemory]
    /\ IF BackendChecked(backend)
       THEN /\ pc' = "get_client"
            /\ redis_status' = redis_status
       ELSE /\ pc' = "serving"
            /\ redis_status' = [state |-> "clean", changed |-> FALSE]
    /\ UNCHANGED <<config, server, locals, exc, raised, hook, registered,
                   runs, prev>>

\* a client call that raises: the try block is left for its except clause
Raises(call, r) ==
    /\ trace' = Append(trace, Call(call, "", 0))
    /\ exc' = ClientError(r, call)
    /\ pc' = ExceptClause(ClientError(r, call))

\* line 129: helper = RedisSettingsHelper(process_cache.get_master_client())
GetMasterClient ==
    /\ pc = "get_client"
    /\ \E r \in CallResults :
        IF r = "ok"
        THEN /\ trace' = Append(trace, Call("get_master_client", "", 0))
             /\ changed' = HelperChangedInit
             /\ pc' = FirstReconciled
             /\ exc' = exc
        ELSE /\ Raises("get_master_client", r)
             /\ changed' = changed
    /\ UNCHANGED <<config, server, handler, maxmemory_policy, maxmemory,
                   used_memory, raised, hook, registered, runs, redis_status,
                   live0, prev>>

\* line 133: maxmemory_policy = helper.get_maxmemory_policy()
GetMaxmemoryPolicy ==
    /\ pc = "get_policy"
    /\ \E r \in CallResults :
        IF r = "ok"
        THEN /\ trace' = Append(trace, Call("get_maxmemory_policy", redis_policy, 0))
             /\ maxmemory_policy' = redis_policy
             /\ pc' = "policy_branch"
             /\ exc' = exc
        ELSE /\ Raises("get_maxmemory_policy", r)
             /\ maxmemory_policy' = maxmemory_policy
    /\ UNCHANGED <<config, server, handler, changed, maxmemory, used_memory,
                   raised, hook, registered, runs, redis_status, live0, prev>>

\* lines 134-143: if / elif on the policy
PolicyBranch ==
    /\ pc = "policy_branch"
    /\ IF PolicyNeedsWrite(config_maxmemory_policy, maxmemory_policy)
       THEN /\ pc' = "set_policy"
            /\ trace' = trace
       ELSE IF PolicyIsDefault(maxmemory_policy)
       THEN /\ pc' = "get_maxmemory"
            /\ trace' = Append(trace, Warn("no_maxmemory_policy", "", 0, 0))
       ELSE /\ pc' = "get_maxmemory"
            /\ trace' = trace
    /\ UNCHANGED <<config, server, handler, locals, exc, raised, hook,
                   registered, runs, redis_status, live0, prev>>

\* line 138: helper.set_maxmemory_policy(config_maxmemory_policy)
SetMaxmemoryPolicy ==
    /\ pc = "set_policy"
    /\ \E r \in CallResults :
        IF r = "ok"
        THEN /\ trace' = Append(trace, Call("set_maxmemory_policy", config_maxmemory_policy, 0))
             /\ redis_policy' = config_maxmemory_policy
             /\ changed' = HelperChangedOnSet
             /\ pc' = "get_maxmemory"
             /\ exc' = exc
        ELSE /\ trace' = Append(trace, Call("set_maxmemory_policy", config_maxmemory_policy, 0))
             /\ exc' = ClientError(r, "set_maxmemory_policy")
             /\ pc' = ExceptClause(ClientError(r, "set_maxmemory_policy"))
             /\ redis_policy' = redis_policy
             /\ changed' = changed
    /\ UNCHANGED <<config, redis_maxmemory, handler, maxmemory_policy,
                   maxmemory, used_memory, raised, hook, registered, runs,
                   redis_status, live0, prev>>

\* line 146: maxmemory = helper.get_maxmemory()
GetMaxmemory ==
    /\ pc = "get_maxmemory"
    /\ \E r \in CallResults :
        IF r = "ok"
        THEN /\ trace' = Append(trace, Call("get_maxmemory", "", redis_maxmemory))
             /\ maxmemory' = redis_maxmemory
             /\ pc' = "memory_branch"
             /\ exc' = exc
        ELSE /\ Raises("get_maxmemory", r)
             /\ maxmemory' = maxmemory
    /\ UNCHANGED <<config, server, handler, changed, maxmemory_policy,
                   used_memory, raised, hook, registered, runs, redis_status,
                   live0, prev>>

\* lines 147-159: if / elif on the memory limit
MemoryBranch ==
    /\ pc = "memory_branch"
    /\ IF MemoryNeedsWrite(config_maxmemory, maxmemory)
       THEN /\ pc' = "get_used_memory"
            /\ trace' = trace
       ELSE IF MemoryUnlimited(maxmemory)
       THEN /\ pc' = "final"
            /\ trace' = Append(trace, Warn("no_maxmemory", "", 0, 0))
       ELSE /\ pc' = "final"
            /\ trace' = trace
    /\ UNCHANGED <<config, server, handler, locals, exc, raised, hook,
                   registered, runs, redis_status, live0, prev>>

\* line 148: used_memory = helper.get_used_memory()
GetUsedMemory ==
    /\ pc = "get_used_memory"
    /\ \/ \E u \in UsedValues :
            /\ trace' = Append(trace, Call("get_used_memory", "", u))
            /\ used_memory' = u
            /\ pc' = "used_branch"
            /\ exc' = exc
       \/ \E r \in CallResults \ {"ok"} :
            /\ Raises("get_used_memory", r)
            /\ used_memory' = used_memory
    /\ UNCHANGED <<config, server, handler, changed, maxmemory_policy,
                   maxmemory, raised, hook, registered, runs, redis_status,
                   live0, prev>>

\* lines 149-155: the warning that usage already exceeds the new limit
UsedBranch ==
    /\ pc = "used_branch"
    /\ IF UsedExceeds(config_maxmemory, used_memory)
       THEN trace' = Append(trace, Warn("used_memory", "", used_memory, config_maxmemory))
       ELSE trace' = trace
    /\ pc' = "set_maxmemory"
    /\ UNCHANGED <<config, server, handler, locals, exc, raised, hook,
                   registered, runs, redis_status, live0, prev>>

\* line 157: helper.set_maxmemory(config_maxmemory)
SetMaxmemory ==
    /\ pc = "set_maxmemory"
    /\ \E r \in CallResults :
        IF r = "ok"
        THEN /\ trace' = Append(trace, Call("set_maxmemory", "", config_maxmemory))
             /\ redis_maxmemory' = config_maxmemory
             /\ changed' = HelperChangedOnSet
             /\ pc' = "final"
             /\ exc' = exc
        ELSE /\ trace' = Append(trace, Call("set_maxmemory", "", config_maxmemory))
             /\ exc' = ClientError(r, "set_maxmemory")
             /\ pc' = ExceptClause(ClientError(r, "set_maxmemory"))
             /\ redis_maxmemory' = redis_maxmemory
             /\ changed' = changed
    /\ UNCHANGED <<config, redis_policy, handler, maxmemory_policy, maxmemory,
                   used_memory, raised, hook, registered, runs, redis_status,
                   live0, prev>>

\* lines 161-168: the consolidated final warning, then the normal return
FinalCheck ==
    /\ pc = "final"
    /\ IF FinalWarningNeeded(changed, maxmemory, maxmemory_policy)
       THEN trace' = Append(trace, Warn("problematic_settings", "", 0, 0))
       ELSE trace' = trace
    /\ pc' = "serving"
    /\ redis_status' = [state |-> "clean", changed |-> changed]
    /\ UNCHANGED <<config, server, handler, locals, exc, raised, hook,
                   registered, runs, live0, prev>>

\* lines 170-171: except ConnectionError as e: logger.warning(...)
ExceptConnection ==
    /\ pc = "except_connection"
    /\ trace' = Append(trace, Warn("unable_to_connect", exc.msg, 0, 0))
    /\ pc' = "raise_from"
    /\ UNCHANGED <<config, server, handler, locals, exc, raised, hook,
                   registered, runs, redis_status, live0, prev>>

\* lines 173-175: raise_from(RedisConnectionError(...), e)
RaiseFrom ==
    /\ pc = "raise_from"
    /\ raised' = RedisConnectionError(exc)
    /\ pc' = "aborted"
    /\ redis_status' = [state |-> "error", changed |-> changed]
    /\ UNCHANGED <<config, server, handler, trace, locals, exc, hook,
                   registered, runs, live0, prev>>

\* lines 177-179: except Exception as e
ExceptOther ==
    /\ pc = "except_other"
    /\ trace' = trace \o <<Warn("unable_to_check", "", 0, 0),
                           Warn("exception_detail", exc.msg, 0, 0)>>
    /\ pc' = "serving"
    /\ redis_status' = [state |-> "error", changed |-> changed]
    /\ UNCHANGED <<config, server, handler, locals, exc, raised, hook,
                   registered, runs, live0, prev>>

\* ------------------------------------------ activate_pragmas_per_connection
\* the connection_created signal calls the registered handler
ConnectionCreated ==
    /\ pc = "serving"
    /\ registered
    /\ \E v \in Vendors, a \in Aliases :
        connection' = [vendor |-> v, alias |-> a]
    /\ handler' = "conn"
    /\ trace' = <<>>
    /\ broken_db' = FALSE
    /\ changed' = FALSE
    /\ maxmemory_policy' = ""
    /\ maxmemory' = -1
    /\ used_memory' = -1
    /\ exc' = NoExc
    /\ pc' = "conn_vendor"
    /\ UNCHANGED <<config, server, raised, registered, runs, redis_status,
                   live0, prev>>

\* lines 68-70
ConnCheckVendor ==
    /\ pc = "conn_vendor"
    /\ IF ConnIsSqlite(connection.vendor)
       THEN IF IsNotifications(connection.alias)
            THEN pc' = "quick_check"
            ELSE pc' = "conn_pragmas"
       ELSE pc' = "serving"
    /\ UNCHANGED <<config, server, handler, trace, locals, exc, raised, hook,
                   registered, runs, redis_status, live0, prev>>

\* lines 71-76: the integrity probe inside try / except DatabaseError
QuickCheck ==
    /\ pc = "quick_check"
    /\ \E r \in ProbeResults :
        /\ trace' = trace \o <<Call("cursor", "", 0), Call("quick_check", r, 0)>>
        /\ broken_db' = BrokenDb(r)
    /\ pc' = "repair_branch"
    /\ UNCHANGED <<config, server, handler, locals, exc, raised, connection,
                   registered, runs, redis_status, live0, prev>>

\* lines 77-78
RepairBranch ==
    /\ pc = "repair_branch"
    /\ IF broken_db
       THEN trace' = Append(trace, Call("repair_sqlite_db", connection.alias, 0))
       ELSE trace' = trace
    /\ pc' = "conn_pragmas"
    /\ UNCHANGED <<config, server, handler, locals, exc, raised, hook,
                   registered, runs, redis_status, live0, prev>>

\* lines 79-82
ConnPragmas ==
    /\ pc = "conn_pragmas"
    /\ trace' = trace \o <<Call("cursor", "", 0),
                           Call("executescript", CONNECTION_PRAGMAS, 0)>>
    /\ pc' = "serving"
    /\ UNCHANGED <<config, server, handler, locals, exc, raised, hook,
                   registered, runs, redis_status, live0, prev>>

\* ---------------------------------------------------------------- restart
\* the process is started again with the same configuration; the server keeps
\* its configuration
Restart ==
    /\ pc \in {"serving", "aborted"}
    /\ runs < MaxRuns
    /\ runs' = runs + 1
    /\ prev' = IF redis_status.state = "notrun" THEN prev
               ELSE [valid |-> TRUE, clean |-> redis_status.state = "clean",
                     changed |-> redis_status.changed,
                     policy |-> redis_policy, maxmemory |-> redis_maxmemory]
    /\ redis_status' = NotRun
    /\ pc' = "boot"
    /\ handler' = "none"
    /\ trace' = <<>>
    /\ changed' = FALSE
    /\ maxmemory_policy' = ""
    /\ maxmemory' = -1
    /\ used_memory' = -1
    /\ exc' = NoExc
    /\ raised' = NotRaised
    /\ connection' = NoConnection
    /\ broken_db' = FALSE
    /\ registered' = FALSE
    /\ live0' = [policy |-> "", maxmemory |-> 0]
    /\ UNCHANGED <<config, server>>

Next ==
    \/ Ready
    \/ StartCheckVendor
    \/ StartExecute
    \/ StartClose
    \/ RedisCheckBackend
    \/ GetMasterClient
    \/ GetMaxmemoryPolicy
    \/ PolicyBranch
    \/ SetMaxmemoryPolicy
    \/ GetMaxmemory
    \/ MemoryBranch
    \/ GetUsedMemory
    \/ UsedBranch
    \/ SetMaxmemory
    \/ FinalCheck
    \/ ExceptConnection
    \/ RaiseFrom
    \/ ExceptOther
    \/ ConnectionCreated
    \/ ConnCheckVendor
    \/ QuickCheck
    \/ RepairBranch
    \/ ConnPragmas
    \/ Restart

Spec == Init /\ [][Next]_vars

TypeOK ==
    /\ pc \in {"boot", "start_vendor", "start_execute", "start_close",
               "redis_backend", "get_client", "get_policy", "policy_branch",
               "set_policy", "get_maxmemory", "memory_branch",
               "get_used_memory", "used_branch", "set_maxmemory", "final",
               "except_connection", "raise_from", "except_other", "serving", "aborted",
               "conn_vendor", "quick_check", "repair_branch", "conn_pragmas"}
    /\ handler \in {"none", "start", "redis", "conn"}
    /\ redis_policy \in LivePolicies \cup ConfigPolicies
    /\ redis_maxmemory \in MemValues
    /\ runs \in 1..MaxRuns

\* ============================================================== properties
CallIdx(name) == {i \in DOMAIN trace : trace[i].kind = "call" /\ trace[i].name = name}
WarnIdx(name) == {i \in DOMAIN trace : trace[i].kind = "warn" /\ trace[i].name = name}
AllWarns == {i \in DOMAIN trace : trace[i].kind = "warn"}
ClientCalls == {i \in DOMAIN trace : trace[i].kind = "call"}
InRedis == handler = "redis" /\ backend = REDIS
\* the check returned normally and no call raised
RedisClean == InRedis /\ pc = "serving" /\ redis_status.state = "clean"
WantPolicyWrite == config_maxmemory_policy # "" /\ config_maxmemory_policy # live0.policy
WantMemoryWrite == config_maxmemory > 0 /\ config_maxmemory # live0.maxmemory

\* C1: with the redis backend and a reachable server, a configured policy P
\* that is non-empty and differs from the live policy L is written by exactly
\* one set_maxmemory_policy(P) call and helper.changed is true afterwards; if
\* P = L or P = "" no set_maxmemory_policy call is made.
C1_PolicyWrittenOnceWhenDifferent ==
    InRedis =>
        LET sets == CallIdx("set_maxmemory_policy") IN
        /\ Cardinality(sets) <= 1
        /\ \A i \in sets : trace[i].str = config_maxmemory_policy
        /\ ~WantPolicyWrite => sets = {}
        /\ (sets # {} /\ exc = NoExc) => changed
        /\ (RedisClean /\ WantPolicyWrite) => (Cardinality(sets) = 1 /\ changed)

C1_Witness ==
    /\ RedisClean
    /\ WantPolicyWrite
    /\ Cardinality(CallIdx("set_maxmemory_policy")) = 1
    /\ redis_policy = config_maxmemory_policy
    /\ live0.policy = "volatile-lru"

\* C2: a configured max-memory M > 0 that differs from the live maxmemory is
\* written by exactly one set_maxmemory(M) call; when the used memory read is
\* greater than M, a warning with both values is logged between the read and
\* that call, and the call is still made.
C2_MemoryWrittenOnceWarnedFirst ==
    InRedis =>
        LET sets == CallIdx("set_maxmemory")
            reads == CallIdx("get_used_memory")
        IN
        /\ Cardinality(sets) <= 1
        /\ \A i \in sets : trace[i].num = config_maxmemory
        /\ (RedisClean /\ WantMemoryWrite) => Cardinality(sets) = 1
        /\ \A i \in sets : \E j \in reads : j < i
        /\ \A i \in sets : \A j \in reads :
              trace[j].num > config_maxmemory =>
                 \E k \in WarnIdx("used_memory") :
                    /\ j < k /\ k < i
                    /\ trace[k].num = trace[j].num
                    /\ trace[k].num2 = config_maxmemory

C2_Witness ==
    /\ RedisClean
    /\ WantMemoryWrite
    /\ used_memory > config_maxmemory
    /\ Cardinality(CallIdx("set_maxmemory")) = 1
    /\ Cardinality(WarnIdx("used_memory")) = 1
    /\ redis_maxmemory = config_maxmemory

\* C3: when the check ends without any exception, the consolidated final
\* warning is logged exactly once if helper.changed is false and the server's
\* maxmemory is 0 or its policy is "noeviction", and not at all otherwise; it
\* is never logged before the end.
C3_FinalWarning ==
    InRedis =>
        LET finals == WarnIdx("problematic_settings") IN
        /\ RedisClean =>
              /\ Cardinality(finals) =
                    IF ~changed /\ (redis_maxmemory = 0 \/ redis_policy = NOEVICTION)
                    THEN 1 ELSE 0
              /\ \A i \in finals : i = Len(trace)
        /\ ~RedisClean => finals = {}

C3_Witness ==
    /\ RedisClean
    /\ ~changed
    /\ redis_maxmemory # 0
    /\ redis_policy = NOEVICTION
    /\ Cardinality(WarnIdx("problematic_settings")) = 1

C3_WitnessNone ==
    /\ RedisClean
    /\ changed
    /\ redis_maxmemory = 0
    /\ WarnIdx("problematic_settings") = {}

\* C4: when a client call of the check raises a redis ConnectionError, the
\* check ends by raising a RedisConnectionError whose cause is that error and
\* whose message carries the error's message; the "Unable to connect to
\* Redis" warning with that message is logged exactly once, as the last log
\* record before the raise (it is the only warning of the run when the first
\* call on the server already fails).
C4_ConnectionErrorWrappedAfterOneWarning ==
    (InRedis /\ exc.type = "ConnectionError") =>
        LET warns == WarnIdx("unable_to_connect") IN
        /\ pc \in {"except_connection", "raise_from", "aborted"}
        /\ pc = "except_connection" => (warns = {} /\ raised = NotRaised)
        /\ pc = "raise_from" => raised = NotRaised
        /\ pc \in {"raise_from", "aborted"} =>
              /\ Cardinality(warns) = 1
              /\ Len(trace) >= 2
              /\ trace[Len(trace)] = Warn("unable_to_connect", exc.msg, 0, 0)
              /\ trace[Len(trace) - 1].kind = "call"
              /\ trace[Len(trace) - 1].name = exc.msg
              /\ exc.msg \in {"get_master_client", "get_maxmemory_policy"} =>
                    Cardinality(AllWarns) = 1
        /\ pc = "aborted" =>
              /\ raised.type = "RedisConnectionError"
              /\ raised.cause = exc
              /\ raised.cause.type = "ConnectionError"
              /\ raised.msg = <<"Unable to connect to Redis: ", exc.msg>>

C4_Witness ==
    /\ InRedis
    /\ pc = "aborted"
    /\ exc = ClientError("ConnectionError", "set_maxmemory")
    /\ raised.type = "RedisConnectionError"
    /\ Cardinality(WarnIdx("unable_to_connect")) = 1

\* C5: when a client call of the check raises an exception that is not a
\* redis ConnectionError, nothing is raised out of the check: it returns
\* normally after logging exactly one "Unable to check Redis settings"
\* warning followed by exactly one record of the exception.
C5_OtherExceptionSwallowedAndLogged ==
    (InRedis /\ exc.type = "Exception") =>
        /\ pc \in {"except_other", "serving"}
        /\ raised = NotRaised
        /\ pc = "except_other" =>
              (WarnIdx("unable_to_check") = {} /\ WarnIdx("exception_detail") = {})
        /\ pc = "serving" =>
              /\ Cardinality(WarnIdx("unable_to_check")) = 1
              /\ Cardinality(WarnIdx("exception_detail")) = 1
              /\ Len(trace) >= 3
              /\ trace[Len(trace) - 1] = Warn("unable_to_check", "", 0, 0)
              /\ trace[Len(trace)] = Warn("exception_detail", exc.msg, 0, 0)
              /\ trace[Len(trace) - 2].name = exc.msg

C5_Witness ==
    /\ InRedis
    /\ pc = "serving"
    /\ exc = ClientError("Exception", "get_used_memory")
    /\ raised = NotRaised
    /\ Cardinality(WarnIdx("exception_detail")) = 1

C7_NoopForOtherBackends ==
    (handler = "redis" /\ backend # REDIS) =>
        /\ trace = <<>>
        /\ pc = "serving"
        /\ exc = NoExc
        /\ raised = NotRaised
        /\ ~changed
        /\ redis_policy = live0.policy
        /\ redis_maxmemory = live0.maxmemory

C7_Witness ==
    /\ handler = "redis"
    /\ backend # REDIS
    /\ pc = "serving"
    /\ WantPolicyWrite
    /\ WantMemoryWrite
    /\ redis_policy = NOEVICTION
    /\ redis_maxmemory = 0

\* C8: after a check that ended without any exception, the check of the next
\* startup with the same configuration makes no set_maxmemory_policy and no
\* set_maxmemory call, and the server's policy and maxmemory stay what they
\* were after the earlier check.
C8_SecondRunWritesNothing ==
    (handler = "redis" /\ prev.valid /\ prev.clean) =>
        /\ CallIdx("set_maxmemory_policy") = {}
        /\ CallIdx("set_maxmemory") = {}
        /\ ~changed
        /\ redis_policy = prev.policy
        /\ redis_maxmemory = prev.maxmemory

C8_Witness ==
    /\ RedisClean
    /\ prev.valid /\ prev.clean /\ prev.changed
    /\ config_maxmemory > 0
    /\ config_maxmemory_policy # ""
    /\ CallIdx("get_maxmemory_policy") # {}
    /\ CallIdx("get_maxmemory") # {}
    /\ CallIdx("set_maxmemory") = {}

\* C9: activate_pragmas_on_start on a sqlite default connection executes the
\* START_PRAGMAS script exactly once and then closes the connection; a
\* DatabaseError raised by the execute leaves the procedure and the
\* connection is then not closed; for another vendor nothing is executed and
\* the connection is not closed.
C9_StartPragmasThenClose ==
    handler = "start" =>
        LET execs == CallIdx("execute")
            closes == CallIdx("close")
        IN
        /\ vendor # SQLITE =>
              (trace = <<>> /\ raised = NotRaised /\ pc \in {"start_vendor", "redis_backend"})
        /\ \A i \in execs : trace[i].str = START_PRAGMAS
        /\ \A c \in closes : \E i \in execs : i < c
        /\ (vendor = SQLITE /\ pc = "redis_backend") =>
              /\ trace = <<Call("cursor", "", 0), Call("execute", START_PRAGMAS, 0),
                           Call("close", "", 0)>>
              /\ raised = NotRaised
        /\ pc = "aborted" =>
              /\ raised.type = "DatabaseError"
              /\ Cardinality(execs) = 1
              /\ closes = {}

C9_Witness ==
    /\ handler = "start"
    /\ vendor = SQLITE
    /\ pc = "redis_backend"
    /\ Len(trace) = 3
    /\ trace[3].name = "close"

\* C10: in every check the policy is reconciled before the memory limit: the
\* read of the live policy, and the set_maxmemory_policy call when one is
\* due, come before every get_maxmemory, get_used_memory and set_maxmemory
\* call; get_used_memory is called only on the way to a set_maxmemory call.
C10_PolicyBeforeMemory ==
    InRedis =>
        LET pol == CallIdx("get_maxmemory_policy") \cup CallIdx("set_maxmemory_policy")
            mem == CallIdx("get_maxmemory") \cup CallIdx("get_used_memory")
                     \cup CallIdx("set_maxmemory")
            reads == CallIdx("get_used_memory")
        IN
        /\ \A i \in pol : \A j \in mem : i < j
        /\ mem # {} =>
              /\ CallIdx("get_maxmemory_policy") # {}
              /\ WantPolicyWrite => CallIdx("set_maxmemory_policy") # {}
        /\ Cardinality(reads) <= 1
        /\ \A u \in reads :
              /\ WantMemoryWrite
              /\ \E g \in CallIdx("get_maxmemory") : g < u
        /\ \A s \in CallIdx("set_maxmemory") :
              \E u \in reads :
                 /\ u < s
                 /\ \A k \in ClientCalls : ~(u < k /\ k < s)
        /\ exc = NoExc =>
              \A u \in reads :
                 \/ pc \in {"used_branch", "set_maxmemory"}
                 \/ \E s \in CallIdx("set_maxmemory") : u < s

C10_Witness ==
    /\ RedisClean
    /\ Cardinality(CallIdx("set_maxmemory_policy")) = 1
    /\ Cardinality(CallIdx("get_used_memory")) = 1
    /\ Cardinality(CallIdx("set_maxmemory")) = 1

====
